---- MODULE Spec2Model ----
(***************************************************************************)
(* Model of bot.py: the Telegram notification daemon (TelegramBotDaemon),  *)
(* its poll loop over pending_message.txt, the /start registration handler *)
(* and the out-of-process send_notification command.                       *)
(*                                                                         *)
(* Texts (file contents, messages, lines) are sequences of one-character   *)
(* strings, so that strip(), isdigit(), int() and f"{chat_id}\n" are       *)
(* computed character by character.                                        *)
(***************************************************************************)
EXTENDS Integers, Sequences, FiniteSets, TLC

\* ---------------------------------------------------------------- bounds
\* Largest number of lines subscribers.txt may grow to.
MaxLines == 2

\* ------------------------------------------------------------ input sets
\* Chat ids the gateway delivers: private chats (positive), groups (negative).
ChatIds == {-7, 42}

\* Messages handed to send_notification: empty, whitespace-only, plain,
\* and one with surrounding whitespace.
Messages == { <<>>, <<" ">>, <<"A">>, <<" ", "B">> }

\* ------------------------------------------------------ text conversions
Whitespace == {" ", "\n", "\t"}

DigitChars == <<"0", "1", "2", "3", "4", "5", "6", "7", "8", "9">>

\* str.lstrip()
RECURSIVE LStrip(_)
LStrip(s) ==
    IF s # <<>> /\ Head(s) \in Whitespace THEN LStrip(Tail(s)) ELSE s

\* str.rstrip()
RECURSIVE RStrip(_)
RStrip(s) ==
    IF s # <<>> /\ s[Len(s)] \in Whitespace
    THEN RStrip(SubSeq(s, 1, Len(s) - 1))
    ELSE s

\* str.strip()
\* a strip that removes nothing
StripNothing(s) == s

\* str.strip()
Strip(s) == RStrip(LStrip(s))

\* str.isdigit(): non-empty and every character a decimal digit
IsDigit(s) ==
    /\ s # <<>>
    /\ \A i \in 1..Len(s) : \E d \in 1..10 : DigitChars[d] = s[i]

\* value of one decimal digit character
DigitValue(c) == (CHOOSE d \in 1..10 : DigitChars[d] = c) - 1

\* int(s) for a string of decimal digits
RECURSIVE ParseInt(_)
ParseInt(s) ==
    IF Len(s) = 1 THEN DigitValue(s[1])
    ELSE 10 * ParseInt(SubSeq(s, 1, Len(s) - 1)) + DigitValue(s[Len(s)])

\* decimal digits of a natural number
RECURSIVE Digits(_)
Digits(n) ==
    IF n < 10 THEN <<DigitChars[n + 1]>>
    ELSE Digits(n \div 10) \o <<DigitChars[(n % 10) + 1]>>

\* f"{chat_id}\n"
FormatLine(chat_id) ==
    (IF chat_id < 0 THEN <<"-">> \o Digits(-chat_id) ELSE Digits(chat_id))
        \o <<"\n">>

\* --------------------------------------------------------------- files
\* A file on disk: absent, or present with its content.
NoFile == [exists |-> FALSE, content |-> <<>>]

File(c) == [exists |-> TRUE, content |-> c]

\* "Добро пожаловать! 👋 Вы подписались на уведомления."
DefaultGreeting == <<"W", "e", "l", "c", "o", "m", "e">>

\* Exception classes that an `except Exception` clause catches;
\* asyncio.CancelledError derives from BaseException only.
ExceptionClasses == {"OSError", "RuntimeError", "TelegramError"}

ExceptException(exc) == exc \in ExceptionClasses

VARIABLES
    subscribers_file,      \* SUBSCRIBERS_FILE: content is a sequence of lines
    last_message_file,     \* LAST_MESSAGE_FILE
    pending_message_file,  \* PENDING_MESSAGE_FILE (the mailbox marker)
    daemon,                \* "running" | "stopped"
    subscribers,           \* self.subscribers
    task,                  \* position of monitor_pending_messages
    message,               \* local `message` of monitor_pending_messages
    iter,                  \* set iterator of `for chat_id in self.subscribers`
    chat_id,               \* loop variable of broadcast_message
    success_count,         \* local of broadcast_message
    failed_count,          \* local of broadcast_message
    producer,              \* a running send_notification process
    event,                 \* the last step taken and what it output
    \* history variables
    g_queued,              \* message of the last enqueue that landed
    g_over,                \* an unread entry was overwritten / then read
    g_outstanding,         \* a message in the marker is not yet processed
    g_readCurrent,         \* `message` was read from the outstanding entry
    g_registered,          \* ids for which _save_subscriber returned True
    g_loadFailed,          \* some _load_subscribers hit an I/O error
    g_startSet,            \* self.subscribers when broadcast_message began
    g_attempted,           \* chat ids sent to in the current broadcast
    g_nAttempts,           \* send_message calls in the current broadcast
    g_forcedFail,          \* sends that failed in the current broadcast
    g_interleaved,         \* a registration landed during the broadcast
    g_outcome,             \* how the last tick of the poll loop ended
    g_cancelledAt,         \* where the task was suspended when cancelled
    g_prev,                \* message and sends of an aborted tick whose
                           \* marker is still in place, else NoPrev
    g_lastWritten          \* last message written to LAST_MESSAGE_FILE

files == <<subscribers_file, last_message_file, pending_message_file>>

locals == <<message, iter, chat_id, success_count, failed_count>>

gMailbox == <<g_queued, g_over, g_outstanding, g_readCurrent>>

gBroadcast == <<g_startSet, g_attempted, g_nAttempts, g_forcedFail,
                g_interleaved>>

vars == <<files, daemon, subscribers, task, locals, producer, event,
          gMailbox, g_registered, g_loadFailed, gBroadcast, g_outcome,
          g_cancelledAt, g_prev,
          g_lastWritten>>

NoChat == 0

NoIter == [si_used |-> 0, todo |-> {}]

IdleProducer == [pc |-> "idle", msg |-> <<>>, linked |-> FALSE]

\* The step `name` with no output: start_command fills in chat_id .. reply_ok,
\* send_notification fills in message and exit_status (-1: still running).
NoPrev == [message |-> <<>>, attempted |-> {}]

Ev(name) ==
    [name |-> name, chat_id |-> NoChat, is_new |-> FALSE,
     append_failed |-> FALSE, read_failed |-> FALSE, reply |-> <<>>,
     reply_ok |-> FALSE, message |-> <<>>, exit_status |-> -1]

\* ------------------------------------------------------ Subscriber Store
\* The identifiers _load_subscribers parses out of the lines of the file.
ParsedIds(lines) ==
    { ParseInt(Strip(lines[i])) :
        i \in { j \in 1..Len(lines) : IsDigit(Strip(lines[j])) } }

\* TelegramBotDaemon._load_subscribers; read_ok = FALSE is an I/O error
_load_subscribers(file, read_ok) ==
    IF ~file.exists THEN {}
    ELSE IF read_ok THEN ParsedIds(file.content)
    ELSE {}

\* _save_subscriber with the in-memory add ahead of the durable append
_save_subscriber_memory_first(subs, file, id, append_ok) ==
    IF id \in subs
    THEN [subscribers |-> subs, file |-> file, ret |-> FALSE]
    ELSE IF append_ok
    THEN [subscribers |-> subs \cup {id},
          file |-> File(Append(file.content, FormatLine(id))),
          ret |-> TRUE]
    ELSE [subscribers |-> subs \cup {id}, file |-> file, ret |-> FALSE]

\* TelegramBotDaemon._save_subscriber; append_ok = FALSE is an I/O error
_save_subscriber(subs, file, id, append_ok) ==
    IF id \in subs
    THEN [subscribers |-> subs, file |-> file, ret |-> FALSE]
    ELSE IF append_ok
    THEN [subscribers |-> subs \cup {id},
          file |-> File(Append(file.content, FormatLine(id))),
          ret |-> TRUE]
    ELSE [subscribers |-> subs, file |-> file, ret |-> FALSE]

\* --------------------------------------------------- Last-Message Record
\* _get_last_message without the fallback for an empty record
_get_last_message_no_fallback(file, read_ok) ==
    IF ~file.exists THEN DefaultGreeting
    ELSE IF ~read_ok THEN DefaultGreeting
    ELSE Strip(file.content)

\* TelegramBotDaemon._get_last_message; read_ok = FALSE is an I/O error
_get_last_message(file, read_ok) ==
    IF ~file.exists THEN DefaultGreeting
    ELSE IF ~read_ok THEN DefaultGreeting
    ELSE IF Strip(file.content) # <<>> THEN Strip(file.content)
    ELSE DefaultGreeting

\* ------------------------------------------------------------- Init
Init ==
    /\ subscribers_file = NoFile
    /\ last_message_file = NoFile
    /\ pending_message_file = NoFile
    /\ daemon = "running"
    /\ subscribers = _load_subscribers(NoFile, TRUE)
    /\ task = "check"
    /\ message = <<>>
    /\ iter = NoIter
    /\ chat_id = NoChat
    /\ success_count = 0
    /\ failed_count = 0
    /\ producer = IdleProducer
    /\ event = Ev("init")
    /\ g_queued = <<>>
    /\ g_over = "no"
    /\ g_outstanding = FALSE
    /\ g_readCurrent = FALSE
    /\ g_registered = {}
    /\ g_loadFailed = FALSE
    /\ g_startSet = {}
    /\ g_attempted = {}
    /\ g_nAttempts = 0
    /\ g_forcedFail = 0
    /\ g_interleaved = FALSE
    /\ g_outcome = "none"
    /\ g_cancelledAt = "none"
    /\ g_prev = NoPrev
    /\ g_lastWritten = <<>>

\* The event loop runs another coroutine only while the monitoring task is
\* suspended at an await: asyncio.sleep (155) or bot.send_message (114).
Suspended == task \in {"sleep", "send"}

\* ------------------------------------------------- Registration Handler
\* start_command undoing the in-memory registration when the reply fails
start_command_rollback(id, append_ok, read_ok, reply_ok) ==
    /\ daemon = "running"
    /\ Suspended
    /\ LET r == _save_subscriber(subscribers, subscribers_file, id, append_ok)
       IN /\ Len(r.file.content) <= MaxLines
          /\ subscribers' = IF reply_ok THEN r.subscribers ELSE subscribers
          /\ subscribers_file' = r.file
          /\ event' = [Ev("start_command") EXCEPT
                         !.chat_id = id,
                         !.is_new = r.ret,
                         !.append_failed = (id \notin subscribers /\ ~append_ok),
                         !.read_failed = (last_message_file.exists /\ ~read_ok),
                         !.reply = _get_last_message(last_message_file, read_ok),
                         !.reply_ok = reply_ok]
          /\ g_registered' = IF r.ret THEN g_registered \cup {id}
                             ELSE g_registered
          /\ g_interleaved' = IF task = "send" /\ r.subscribers # subscribers
                              THEN TRUE ELSE g_interleaved
    /\ UNCHANGED <<last_message_file, pending_message_file, daemon, task,
                   locals, producer, gMailbox, g_loadFailed, g_startSet,
                   g_attempted,
                   g_nAttempts, g_forcedFail, g_outcome, g_cancelledAt, g_prev,
                   g_lastWritten>>

\* TelegramBotDaemon.start_command for an update from chat `id`.
start_command(id, append_ok, read_ok, reply_ok) ==
    /\ daemon = "running"
    /\ Suspended
    /\ LET r == _save_subscriber(subscribers, subscribers_file, id, append_ok)
       IN /\ Len(r.file.content) <= MaxLines
          /\ subscribers' = r.subscribers
          /\ subscribers_file' = r.file
          /\ event' = [Ev("start_command") EXCEPT
                         !.chat_id = id,
                         !.is_new = r.ret,
                         !.append_failed = (id \notin subscribers /\ ~append_ok),
                         !.read_failed = (last_message_file.exists /\ ~read_ok),
                         !.reply = _get_last_message(last_message_file, read_ok),
                         !.reply_ok = reply_ok]
          /\ g_registered' = IF r.ret THEN g_registered \cup {id}
                             ELSE g_registered
          /\ g_interleaved' = IF task = "send" /\ r.subscribers # subscribers
                              THEN TRUE ELSE g_interleaved
    /\ UNCHANGED <<last_message_file, pending_message_file, daemon, task,
                   locals, producer, gMailbox, g_loadFailed, g_startSet,
                   g_attempted,
                   g_nAttempts, g_forcedFail, g_outcome, g_cancelledAt, g_prev,
                   g_lastWritten>>

\* ---------------------------------------------------- Enqueue Entry Point
\* open(path, 'a'): creates the file, keeps what an existing one holds
OpenA(file) == File(file.content)

\* open(path, 'w'): creates the file or truncates it
OpenW(file) == File(<<>>)

\* f.write(text) followed by the close of the `with` block
Write(file, text) == File(file.content \o text)

\* `not message` without the strip
MessageIsEmptyNoStrip(m) == m = <<>>

\* `not message.strip()` of send_notification
MessageIsEmpty(m) == Strip(m) = <<>>

\* an enqueue that also puts its message into the Last-Message Record
send_notification_records(m, open_ok) ==
    /\ producer.pc = "idle"
    /\ IF MessageIsEmpty(m) \/ ~open_ok
       THEN /\ event' = [Ev("send_notification") EXCEPT
                           !.message = m, !.exit_status = 1]
            /\ UNCHANGED <<producer, pending_message_file, g_outstanding,
                           g_over, g_queued, g_prev, last_message_file>>
       ELSE /\ event' = [Ev("send_notification") EXCEPT !.message = m]
            /\ g_prev' = NoPrev
            /\ last_message_file' = Write(OpenW(last_message_file), m)
            /\ producer' = [pc |-> "opened", msg |-> m, linked |-> TRUE]
            /\ pending_message_file' = OpenW(pending_message_file)
            /\ g_over' = IF g_outstanding /\ ~g_readCurrent
                         THEN "overwritten" ELSE "no"
            /\ g_outstanding' = FALSE
            /\ g_queued' = <<>>
    /\ UNCHANGED <<subscribers_file, daemon, subscribers,
                   task, locals, g_readCurrent, g_registered, g_loadFailed,
                   gBroadcast,
                   g_outcome, g_cancelledAt, g_lastWritten>>

\* send_notification up to and including open(PENDING_MESSAGE_FILE, 'w'),
\* run in a process of its own; open_ok = FALSE is an I/O error.
send_notification(m, open_ok) ==
    /\ producer.pc = "idle"
    /\ IF MessageIsEmpty(m) \/ ~open_ok
       THEN /\ event' = [Ev("send_notification") EXCEPT
                           !.message = m, !.exit_status = 1]
            /\ UNCHANGED <<producer, pending_message_file, g_outstanding,
                           g_over, g_queued, g_prev>>
       ELSE /\ event' = [Ev("send_notification") EXCEPT !.message = m]
            /\ g_prev' = NoPrev
            /\ producer' = [pc |-> "opened", msg |-> m, linked |-> TRUE]
            /\ pending_message_file' = OpenW(pending_message_file)
            /\ g_over' = IF g_outstanding /\ ~g_readCurrent
                         THEN "overwritten" ELSE "no"
            /\ g_outstanding' = FALSE
            /\ g_queued' = <<>>
    /\ UNCHANGED <<subscribers_file, last_message_file, daemon, subscribers,
                   task, locals, g_readCurrent, g_registered, g_loadFailed,
                   gBroadcast,
                   g_outcome, g_cancelledAt, g_lastWritten>>

\* send_notification from f.write(message) to its exit; when the poll loop
\* has unlinked the marker in between, the write lands in the orphaned file.
send_notification_write(write_ok) ==
    /\ producer.pc = "opened"
    /\ producer' = IdleProducer
    /\ IF write_ok
       THEN /\ event' = [Ev("send_notification_write") EXCEPT
                           !.message = producer.msg, !.exit_status = 0]
            /\ pending_message_file' =
                  IF producer.linked
                  THEN Write(pending_message_file, producer.msg)
                  ELSE pending_message_file
            /\ g_queued' = IF producer.linked THEN producer.msg ELSE <<>>
            /\ g_outstanding' = producer.linked
            /\ g_readCurrent' = FALSE
            /\ UNCHANGED g_over
       ELSE /\ event' = [Ev("send_notification_write") EXCEPT
                           !.message = producer.msg, !.exit_status = 1]
            /\ g_over' = "no"
            /\ UNCHANGED <<pending_message_file, g_queued, g_outstanding,
                           g_readCurrent>>
    /\ UNCHANGED <<subscribers_file, last_message_file, daemon, subscribers,
                   task, locals, g_registered, g_loadFailed, gBroadcast,
                   g_outcome,
                   g_cancelledAt, g_prev, g_lastWritten>>

\* ------------------------------------------------------------ Poll Loop
\* an exception that no handler catches ends the monitoring task
TickAbortsUncaught(outcome) ==
    /\ task' = "crashed"
    /\ g_outcome' = outcome
    /\ g_prev' = NoPrev

\* What a tick that did not remove the marker leaves for the next one: the
\* message it read and the chats it sent to, if the marker still holds it.
Leftover ==
    IF message # <<>> /\ Strip(pending_message_file.content) = message
    THEN [message |-> message, attempted |-> g_attempted]
    ELSE NoPrev

\* An exception caught by `except Exception` at line 151: log, then sleep.
TickAborts(outcome) ==
    /\ g_prev' = Leftover
    /\ task' = "sleep"
    /\ g_outcome' = outcome

\* Between exists() at line 132 and open() at line 134 the marker is removed
\* from outside the daemon.
MarkerVanishes ==
    /\ daemon = "running"
    /\ task = "read"
    /\ pending_message_file.exists
    /\ event' = Ev("MarkerVanishes")
    /\ pending_message_file' = NoFile
    /\ producer' = [producer EXCEPT !.linked = FALSE]
    /\ g_queued' = <<>>
    /\ g_over' = "no"
    /\ g_outstanding' = FALSE
    /\ g_readCurrent' = FALSE
    /\ UNCHANGED <<subscribers_file, last_message_file, daemon, subscribers,
                   task, locals, g_registered, g_loadFailed, gBroadcast,
                   g_outcome, g_cancelledAt, g_lastWritten>>
    /\ g_prev' = NoPrev

\* an idle tick that resets the Last-Message Record
PollCheckClearsRecord ==
    /\ daemon = "running"
    /\ task = "check"
    /\ event' = Ev("PollCheck")
    /\ IF pending_message_file.exists
       THEN /\ task' = "read"
            /\ UNCHANGED <<g_outcome, last_message_file>>
       ELSE /\ task' = "sleep"
            /\ g_outcome' = "idle"
            /\ last_message_file' = OpenW(last_message_file)
    /\ UNCHANGED <<subscribers_file, pending_message_file, daemon,
                   subscribers, locals, producer, gMailbox, g_registered,
                   g_loadFailed, gBroadcast, g_cancelledAt, g_prev, g_lastWritten>>

\* PENDING_MESSAGE_FILE.exists() at the top of an iteration
PollCheck ==
    /\ daemon = "running"
    /\ task = "check"
    /\ event' = Ev("PollCheck")
    /\ IF pending_message_file.exists
       THEN task' = "read" /\ UNCHANGED g_outcome
       ELSE task' = "sleep" /\ g_outcome' = "idle"
    /\ UNCHANGED <<files, daemon, subscribers, locals, producer, gMailbox,
                   g_registered, g_loadFailed, gBroadcast, g_cancelledAt, g_prev,
                   g_lastWritten>>

\* the read with its errors escaping the loop's handler
PollReadUncaught(read_ok) ==
    /\ daemon = "running"
    /\ task = "read"
    /\ event' = Ev("PollRead")
    /\ IF pending_message_file.exists /\ read_ok
       THEN /\ message' = Strip(pending_message_file.content)
            /\ task' = IF message' # <<>> THEN "write_last" ELSE "unlink"
            /\ g_readCurrent' = g_outstanding
            /\ g_over' = IF g_over = "overwritten" /\ producer.pc = "idle"
                         THEN "read" ELSE "no"
            /\ UNCHANGED <<g_outcome, g_prev>>
       ELSE /\ task' = "crashed"
            /\ g_outcome' = "read_error"
            /\ g_prev' = NoPrev
            /\ UNCHANGED <<message, g_readCurrent, g_over>>
    /\ UNCHANGED <<files, daemon, subscribers, iter, chat_id, success_count,
                   failed_count, producer, g_queued, g_outstanding,
                   g_registered, g_loadFailed, gBroadcast, g_cancelledAt,
                   g_lastWritten>>

\* open(PENDING_MESSAGE_FILE, 'r'), f.read().strip() and `if message:`
PollRead(read_ok) ==
    /\ daemon = "running"
    /\ task = "read"
    /\ event' = Ev("PollRead")
    /\ IF pending_message_file.exists /\ read_ok
       THEN /\ message' = Strip(pending_message_file.content)
            /\ task' = IF message' # <<>> THEN "write_last" ELSE "unlink"
            /\ g_readCurrent' = g_outstanding
            /\ g_over' = IF g_over = "overwritten" /\ producer.pc = "idle"
                         THEN "read" ELSE "no"
            /\ UNCHANGED <<g_outcome, g_prev>>
       ELSE /\ TickAborts("read_error")
            /\ UNCHANGED <<message, g_readCurrent, g_over>>
    /\ UNCHANGED <<files, daemon, subscribers, iter, chat_id, success_count,
                   failed_count, producer, g_queued, g_outstanding,
                   g_registered, g_loadFailed, gBroadcast, g_cancelledAt,
                   g_lastWritten>>

\* the record write put off: the loop goes on to the broadcast without it
PollWriteLastSkipsWrite(how) ==
    /\ daemon = "running"
    /\ task = "write_last"
    /\ event' = Ev("PollWriteLast")
    /\ task' = "broadcast"
    /\ UNCHANGED <<files, daemon, subscribers, locals, producer, gMailbox,
                   g_registered, g_loadFailed, gBroadcast, g_outcome,
                   g_cancelledAt, g_prev, g_lastWritten>>

\* with open(LAST_MESSAGE_FILE, 'w') as f: f.write(message)
\* how = "ok" | "open_failed" (file untouched) | "write_failed" (truncated)
PollWriteLast(how) ==
    /\ daemon = "running"
    /\ task = "write_last"
    /\ event' = Ev("PollWriteLast")
    /\ CASE how = "ok" ->
              /\ last_message_file' = Write(OpenW(last_message_file), message)
              /\ g_lastWritten' = message
              /\ task' = "broadcast"
              /\ UNCHANGED <<g_outcome, g_prev>>
         [] how = "open_failed" ->
              /\ TickAborts("write_error")
              /\ UNCHANGED <<last_message_file, g_lastWritten>>
         [] how = "write_failed" ->
              /\ last_message_file' = OpenW(last_message_file)
              /\ TickAborts("write_error")
              /\ UNCHANGED g_lastWritten
    /\ UNCHANGED <<subscribers_file, pending_message_file, daemon,
                   subscribers, locals, producer, gMailbox, g_registered,
                   g_loadFailed,
                   gBroadcast, g_cancelledAt>>

\* broadcast_message has returned: the message read from the outstanding
\* entry has been written to the record and swept over the subscribers.
Processed == IF g_readCurrent THEN FALSE ELSE g_outstanding

\* the for header with the unlink in a `finally`: the RuntimeError goes on
\* to the loop's handler after the marker was removed
IterNextUnlinksAnyway(it) ==
    IF Cardinality(subscribers) # it.si_used
    THEN /\ task' = "unlink"
         /\ g_outcome' = "RuntimeError"
         /\ UNCHANGED <<iter, chat_id, g_attempted, g_nAttempts,
                        g_outstanding, g_prev>>
    ELSE IF it.todo = {}
    THEN /\ task' = "unlink"
         /\ iter' = it
         /\ g_outstanding' = Processed
         /\ UNCHANGED <<chat_id, g_attempted, g_nAttempts, g_outcome, g_prev>>
    ELSE \E c \in it.todo :
         /\ task' = "send"
         /\ chat_id' = c
         /\ iter' = [it EXCEPT !.todo = it.todo \ {c}]
         /\ g_attempted' = g_attempted \cup {c}
         /\ g_nAttempts' = g_nAttempts + 1
         /\ UNCHANGED <<g_outstanding, g_outcome, g_prev>>

\* The header of `for chat_id in self.subscribers` asking the set iterator
\* for its next element: RuntimeError when the set changed size, the end of
\* the loop when nothing is left, else some element not yet visited.
IterNext(it) ==
    IF Cardinality(subscribers) # it.si_used
    THEN /\ TickAborts("RuntimeError")
         /\ UNCHANGED <<iter, chat_id, g_attempted, g_nAttempts,
                        g_outstanding>>
    ELSE IF it.todo = {}
    THEN /\ task' = "unlink"
         /\ iter' = it
         /\ g_outstanding' = Processed
         /\ UNCHANGED <<chat_id, g_attempted, g_nAttempts, g_outcome, g_prev>>
    ELSE \E c \in it.todo :
         /\ task' = "send"
         /\ chat_id' = c
         /\ iter' = [it EXCEPT !.todo = it.todo \ {c}]
         /\ g_attempted' = g_attempted \cup {c}
         /\ g_nAttempts' = g_nAttempts + 1
         /\ UNCHANGED <<g_outstanding, g_outcome, g_prev>>

\* broadcast_message raising when there is nobody to send to
PollBroadcastEmptyRaises ==
    /\ daemon = "running"
    /\ task = "broadcast"
    /\ event' = Ev("PollBroadcast")
    /\ g_startSet' = subscribers
    /\ success_count' = 0
    /\ failed_count' = 0
    /\ IF subscribers = {}
       THEN /\ TickAborts("RuntimeError")
            /\ UNCHANGED <<iter, chat_id, g_attempted, g_nAttempts,
                           g_outstanding>>
       ELSE IterNext([si_used |-> Cardinality(subscribers),
                      todo |-> subscribers])
    /\ UNCHANGED <<files, daemon, subscribers, message, producer, g_queued,
                   g_over, g_readCurrent, g_registered, g_loadFailed,
                   g_forcedFail,
                   g_interleaved, g_cancelledAt, g_lastWritten>>

\* broadcast_message from its call to the first send_message
PollBroadcast ==
    /\ daemon = "running"
    /\ task = "broadcast"
    /\ event' = Ev("PollBroadcast")
    /\ g_startSet' = subscribers
    /\ success_count' = 0
    /\ failed_count' = 0
    /\ IF subscribers = {}
       THEN /\ task' = "unlink"
            /\ g_outstanding' = Processed
            /\ UNCHANGED <<iter, chat_id, g_attempted, g_nAttempts,
                           g_outcome, g_prev>>
       ELSE IterNext([si_used |-> Cardinality(subscribers),
                      todo |-> subscribers])
    /\ UNCHANGED <<files, daemon, subscribers, message, producer, g_queued,
                   g_over, g_readCurrent, g_registered, g_loadFailed,
                   g_forcedFail,
                   g_interleaved, g_cancelledAt, g_lastWritten>>

\* a sweep that stops at the first failed send
SendResultBreakOnFailure(ok) ==
    /\ daemon = "running"
    /\ task = "send"
    /\ event' = Ev("SendResult")
    /\ IF ok
       THEN /\ success_count' = success_count + 1
            /\ UNCHANGED <<failed_count, g_forcedFail>>
            /\ IterNext(iter)
       ELSE /\ failed_count' = failed_count + 1
            /\ g_forcedFail' = g_forcedFail + 1
            /\ UNCHANGED success_count
            /\ IterNext([iter EXCEPT !.todo = {}])
    /\ UNCHANGED <<files, daemon, subscribers, message, producer, g_queued,
                   g_over, g_readCurrent, g_registered, g_loadFailed,
                   g_startSet,
                   g_interleaved, g_cancelledAt, g_lastWritten>>

\* The awaited send_message completes (ok) or raises (not ok, caught at line
\* 122); the count is taken and the for loop moves on.
SendResult(ok) ==
    /\ daemon = "running"
    /\ task = "send"
    /\ event' = Ev("SendResult")
    /\ IF ok
       THEN /\ success_count' = success_count + 1
            /\ UNCHANGED <<failed_count, g_forcedFail>>
       ELSE /\ failed_count' = failed_count + 1
            /\ g_forcedFail' = g_forcedFail + 1
            /\ UNCHANGED success_count
    /\ IterNext(iter)
    /\ UNCHANGED <<files, daemon, subscribers, message, producer, g_queued,
                   g_over, g_readCurrent, g_registered, g_loadFailed,
                   g_startSet,
                   g_interleaved, g_cancelledAt, g_lastWritten>>

\* PENDING_MESSAGE_FILE.unlink(); an open writer keeps the orphaned file
PollUnlink(unlink_ok) ==
    /\ daemon = "running"
    /\ task = "unlink"
    /\ event' = Ev("PollUnlink")
    /\ task' = "sleep"
    /\ IF pending_message_file.exists /\ unlink_ok
       THEN /\ pending_message_file' = NoFile
            /\ producer' = [producer EXCEPT !.linked = FALSE]
            /\ g_queued' = <<>>
            /\ g_outcome' = IF message # <<>> THEN "processed" ELSE "empty"
            /\ g_prev' = NoPrev
       ELSE /\ g_outcome' = "unlink_error"
            /\ g_prev' = Leftover
            /\ UNCHANGED <<pending_message_file, producer, g_queued>>
    /\ UNCHANGED <<subscribers_file, last_message_file, daemon, subscribers,
                   locals, g_over, g_outstanding, g_readCurrent,
                   g_registered, g_loadFailed, gBroadcast, g_cancelledAt,
                   g_lastWritten>>

\* asyncio.sleep(1) returns and the next iteration begins
PollWake ==
    /\ daemon = "running"
    /\ task = "sleep"
    /\ event' = Ev("PollWake")
    /\ task' = "check"
    /\ message' = <<>>
    /\ iter' = NoIter
    /\ chat_id' = NoChat
    /\ success_count' = 0
    /\ failed_count' = 0
    /\ g_startSet' = {}
    /\ g_attempted' = {}
    /\ g_nAttempts' = 0
    /\ g_forcedFail' = 0
    /\ g_interleaved' = FALSE
    /\ g_outcome' = "none"
    /\ g_over' = IF g_over = "read" THEN "no" ELSE g_over
    /\ UNCHANGED <<files, daemon, subscribers, producer, g_queued,
                   g_outstanding, g_readCurrent, g_registered, g_loadFailed,
                   g_cancelledAt, g_prev,
                   g_lastWritten>>

\* ------------------------------------------------------------ lifecycle
\* TelegramBotDaemon.post_shutdown: monitoring_task.cancel() raises
\* CancelledError at the await the task is suspended in; neither handler
\* (lines 122, 151) catches it, so the task ends there.
post_shutdown ==
    /\ daemon = "running"
    /\ Suspended
    /\ ~ExceptException("CancelledError")
    /\ event' = Ev("post_shutdown")
    /\ daemon' = "stopped"
    /\ g_cancelledAt' = task
    /\ task' = "cancelled"
    /\ UNCHANGED <<files, subscribers, locals, producer, gMailbox,
                   g_registered, g_loadFailed, gBroadcast, g_outcome,
                   g_lastWritten>>
    /\ UNCHANGED g_prev

\* A new daemon process: __init__ (load the subscribers) and post_init
\* (create the monitoring task).
Restart(read_ok) ==
    /\ daemon = "stopped"
    /\ event' = [Ev("Restart") EXCEPT
                    !.read_failed = (subscribers_file.exists /\ ~read_ok)]
    /\ g_loadFailed' = (g_loadFailed \/ (subscribers_file.exists /\ ~read_ok))
    /\ daemon' = "running"
    /\ subscribers' = _load_subscribers(subscribers_file, read_ok)
    /\ task' = "check"
    /\ message' = <<>>
    /\ iter' = NoIter
    /\ chat_id' = NoChat
    /\ success_count' = 0
    /\ failed_count' = 0
    /\ g_startSet' = {}
    /\ g_attempted' = {}
    /\ g_nAttempts' = 0
    /\ g_forcedFail' = 0
    /\ g_interleaved' = FALSE
    /\ g_outcome' = "none"
    /\ g_cancelledAt' = "none"
    /\ g_readCurrent' = FALSE
    /\ g_over' = IF g_over = "read" THEN "no" ELSE g_over
    /\ UNCHANGED <<files, producer, g_queued, g_outstanding, g_registered,
                   g_lastWritten>>
    /\ UNCHANGED g_prev

\* ---------------------------------------------------------- entry point
\* Values of the environment variable TELEGRAM_BOT_TOKEN: unset or empty,
\* and set
Tokens == { <<>>, <<"t">> }

\* the import-time test left out
TokenMissingNever(token) == FALSE

\* `if not BOT_TOKEN:` at import of the module
TokenMissing(token) == token = <<>>

\* sys.exit(1) at import: nothing of the program has run
ImportExit ==
    /\ event' = [Ev("main") EXCEPT !.exit_status = 1]
    /\ UNCHANGED <<files, daemon, subscribers, task, locals, producer,
                   gMailbox, g_registered, g_loadFailed, gBroadcast,
                   g_outcome, g_cancelledAt, g_prev, g_lastWritten>>

\* python bot.py <message>: import, then main() calls send_notification
main_send_notification(token) ==
    IF TokenMissing(token)
    THEN ImportExit
    ELSE \E m \in Messages, open_ok \in BOOLEAN : send_notification(m, open_ok)

\* python bot.py: import, then main() builds the daemon and runs it
main_run(token) ==
    IF TokenMissing(token)
    THEN ImportExit
    ELSE \E read_ok \in BOOLEAN : Restart(read_ok)

\* ----------------------------------------------------------------- Next
Next ==
    \/ \E id \in ChatIds, append_ok, read_ok, reply_ok \in BOOLEAN :
          start_command(id, append_ok, read_ok, reply_ok)
    \/ \E token \in Tokens : main_send_notification(token)
    \/ \E write_ok \in BOOLEAN : send_notification_write(write_ok)
    \/ PollCheck
    \/ MarkerVanishes
    \/ \E read_ok \in BOOLEAN : PollRead(read_ok)
    \/ \E how \in {"ok", "open_failed", "write_failed"} : PollWriteLast(how)
    \/ PollBroadcast
    \/ \E ok \in BOOLEAN : SendResult(ok)
    \/ \E unlink_ok \in BOOLEAN : PollUnlink(unlink_ok)
    \/ PollWake
    \/ post_shutdown
    \/ \E token \in Tokens : main_run(token)

Spec == Init /\ [][Next]_vars

\* The steps of the monitoring task. The event loop resumes the task when
\* what it awaits is done: the sleep ends, the gateway call returns or fails.
PollStep ==
    \/ PollCheck
    \/ \E read_ok \in BOOLEAN : PollRead(read_ok)
    \/ \E how \in {"ok", "open_failed", "write_failed"} : PollWriteLast(how)
    \/ PollBroadcast
    \/ \E ok \in BOOLEAN : SendResult(ok)
    \/ \E unlink_ok \in BOOLEAN : PollUnlink(unlink_ok)
    \/ PollWake

\* The program with at most one line per chat in the subscriber file and a
\* monitoring task that is not starved.
FairNext == Next /\ Len(subscribers_file'.content) <= Cardinality(ChatIds)

FairSpec == Init /\ [][FairNext]_vars /\ WF_vars(PollStep)

\* ======================================================== properties
\* Lines of subscribers.txt that hold `id`
LineCount(id) ==
    Cardinality({ i \in 1..Len(subscribers_file.content) :
                    subscribers_file.content[i] = FormatLine(id) })

\* C1: a message that send_notification wrote to the marker and reported as
\* queued, and that no later enqueue has overwritten, stays in the mailbox
\* until the poll loop has written it to the Last-Message Record and swept
\* the subscribers with it, so that the loop still gets to process it.
C1_QueuedMessageIsProcessed ==
    g_outstanding => pending_message_file.exists

\* C2: the mailbox holds one entry and the last write wins: once a writer
\* has finished, a present marker holds exactly the message of the last
\* enqueue, and a read that follows an overwriting enqueue makes the loop
\* record and broadcast that last message only.
C2_MailboxSingleSlot ==
    /\ (producer.pc = "idle" /\ pending_message_file.exists)
          => pending_message_file.content = g_queued
    /\ (g_over = "read"
          /\ task \in {"write_last", "broadcast", "send", "unlink"})
          => message = Strip(g_queued)

\* C2 witness: B was enqueued over the unread A and is now being broadcast
C2_Witness ==
    /\ g_over = "read"
    /\ task = "send"
    /\ g_queued = <<" ", "B">>
    /\ message = <<"B">>

\* C3: right after a restart whose load did not fail, every identifier that
\* _save_subscriber saved is in the loaded set, and the file holds it on
\* exactly one line.
C3_RegisterLoadRoundTrip ==
    (event.name = "Restart" /\ ~g_loadFailed)
       => \A id \in g_registered :
             id \in subscribers /\ LineCount(id) = 1

\* C4: registration is idempotent across restarts: as long as no load hit an
\* I/O error, the file never holds the same identifier on two lines, and a
\* registration that returns True is the one that wrote its only line.
C4_RegistrationIdempotent ==
    ~g_loadFailed
       => /\ \A id \in ChatIds : LineCount(id) <= 1
          /\ (event.name = "start_command" /\ event.is_new)
                => LineCount(event.chat_id) = 1

\* C5: durable first: every identifier of the in-memory set has a line in
\* the subscriber file, and a registration whose append failed returned
\* False and left the identifier out of the in-memory set.
C5_DurableFirst ==
    /\ \A id \in subscribers : LineCount(id) >= 1
    /\ (event.name = "start_command" /\ event.append_failed)
          => (~event.is_new /\ event.chat_id \notin subscribers)

\* C5 witness: an append failed while another subscriber was registered
C5_Witness ==
    /\ event.name = "start_command"
    /\ event.append_failed
    /\ subscribers # {}

\* C6: when broadcast_message returns, it has made exactly one send per
\* subscriber, N in all, and counted N-M successes and M failures, M being
\* the sends that failed; during the sweep no subscriber is sent to twice
\* and every finished send has been counted once.
C6_BroadcastCompleteness ==
    /\ (task = "unlink" /\ message # <<>>)
          => /\ g_startSet = subscribers
             /\ g_attempted = subscribers
             /\ g_nAttempts = Cardinality(subscribers)
             /\ failed_count = g_forcedFail
             /\ success_count = Cardinality(subscribers) - g_forcedFail
    /\ task = "send"
          => /\ g_nAttempts = Cardinality(g_attempted)
             /\ success_count + failed_count = g_nAttempts - 1
             /\ chat_id \in g_startSet

\* C6 witness: a sweep over two subscribers returned with one failure
C6_Witness ==
    /\ task = "unlink"
    /\ Cardinality(subscribers) = 2
    /\ g_nAttempts = 2
    /\ failed_count = 1
    /\ success_count = 1

\* C7: a tick in whose broadcast a registration landed still ends with a
\* send attempted to every subscriber of the starting set and with the
\* marker removed (or the removal itself failing), never with an exception
\* out of broadcast_message.
C7_SweepSurvivesRegistration ==
    (task = "sleep" /\ g_interleaved)
       => /\ g_startSet \subseteq g_attempted
          /\ g_outcome \in {"processed", "unlink_error"}

\* C8: the monitoring task stops on cancellation only at the sleep between
\* ticks, never while a broadcast is suspended at a send.
C8_CancelOnlyAtSleep ==
    task = "cancelled" => g_cancelledAt = "sleep"

\* C9 as stated: the reply of start_command is the most recent message the
\* poll loop recorded, or the default greeting if it recorded none.
C9_ReplyIsLastConsumed ==
    event.name = "start_command"
       => event.reply = IF g_lastWritten = <<>> THEN DefaultGreeting
                        ELSE g_lastWritten

\* C9 amended: the reply of start_command is the most recent message the
\* poll loop wrote to the Last-Message Record, or the default greeting when
\* the record is absent, empty (truncated by a failed write) or unreadable.
C9_ReplyIsRecordOrDefault ==
    event.name = "start_command"
       => event.reply =
             IF \/ ~last_message_file.exists
                \/ last_message_file.content = <<>>
                \/ event.read_failed
             THEN DefaultGreeting
             ELSE g_lastWritten

\* C9 witness: a late joiner is greeted with the message being broadcast
C9_Witness ==
    /\ event.name = "start_command"
    /\ task = "send"
    /\ event.is_new
    /\ event.reply = <<"B">>

\* C10: a send_notification call with an empty or whitespace-only message
\* exits with status 1 and changes neither the marker nor any other file,
\* nor the daemon, nor a writer in progress.
C10_EnqueueValidation ==
    [][(event'.name = "send_notification" /\ Strip(event'.message) = <<>>)
         => /\ event'.exit_status = 1
            /\ UNCHANGED <<files, daemon, subscribers, task, locals,
                           producer>>]_vars

\* C10 witness: a whitespace-only message was rejected while an earlier
\* entry was pending, and that entry is still there
C10_Witness ==
    /\ event.name = "send_notification"
    /\ event.message = <<" ">>
    /\ event.exit_status = 1
    /\ pending_message_file = File(<<"A">>)

\* C11 as stated: a tick that read an empty or whitespace-only marker ends
\* with the marker removed and with no gateway call made.
C11_BlankMarkerRemoved ==
    (task = "sleep" /\ message = <<>>
        /\ g_outcome \in {"empty", "unlink_error"})
       => (g_outcome = "empty" /\ g_nAttempts = 0)

\* C11 amended: a read that finds the marker empty or whitespace-only goes
\* straight to the unlink of the same tick, with no gateway call and the
\* Last-Message Record unchanged; the unlink removes the marker unless it
\* raises, and then the marker stays as it is for the next tick.
C11_BlankMarkerSwallowed ==
    [][/\ (event'.name = "PollRead" /\ task' # "sleep"
             /\ \A i \in 1..Len(pending_message_file.content) :
                   pending_message_file.content[i] \in Whitespace)
          => /\ task' = "unlink"
             /\ message' = <<>>
             /\ g_nAttempts' = 0
             /\ UNCHANGED last_message_file
       /\ (event'.name = "PollUnlink" /\ message = <<>>)
          => /\ task' = "sleep"
             /\ g_nAttempts' = 0
             /\ UNCHANGED last_message_file
             /\ \/ g_outcome' = "empty" /\ ~pending_message_file'.exists
                \/ g_outcome' = "unlink_error"
                     /\ UNCHANGED pending_message_file]_vars

\* C11 witness: a blank marker was removed while a record exists
C11_Witness ==
    /\ task = "sleep"
    /\ g_outcome = "empty"
    /\ ~pending_message_file.exists
    /\ last_message_file = File(<<"A">>)

\* C13: while broadcast_message runs, the record already holds the message
\* being broadcast and the marker has not been removed; the loop has removed
\* the marker of a non-empty message only with every subscriber sent to.
C13_RecordThenSendsThenUnlink ==
    /\ task \in {"broadcast", "send"}
          => /\ message # <<>>
             /\ last_message_file = File(message)
             /\ pending_message_file.exists
    /\ g_outcome = "processed"
          => /\ iter.todo = {}
             /\ g_attempted = g_startSet
             /\ success_count + failed_count = g_nAttempts

\* C13 witness: a processed tick that sent to two subscribers
C13_Witness ==
    /\ g_outcome = "processed"
    /\ g_nAttempts = 2
    /\ last_message_file = File(message)

\* Positions of the running monitoring task
LoopPositions ==
    {"check", "read", "write_last", "broadcast", "send", "unlink", "sleep"}

\* Where the monitoring task can be, and where it is after a tick has ended
LoopInvariant ==
    /\ daemon = "running" => task \in LoopPositions
    /\ g_outcome # "none" => task \in {"sleep", "cancelled"}
    /\ (daemon = "running" /\ task = "sleep") => ENABLED PollWake
    /\ task \notin LoopPositions
          => (task = "cancelled" /\ daemon = "stopped")

\* C14: whatever a tick ran into, the monitoring task stays on its loop:
\* again and again it is at its sleep and again and again it has left the
\* sleep for the next poll, unless it was cancelled, which is the only way
\* it is ever off the loop.
C14_LoopSurvives ==
    /\ []LoopInvariant
    /\ []<>(task \in {"sleep", "cancelled"})
    /\ []<>(task # "sleep")

\* C14 witness: the loop is at its sleep after the record write failed
C14_Witness ==
    /\ daemon = "running"
    /\ task = "sleep"
    /\ g_outcome = "write_error"

\* C16 as stated: a tick whose broadcast found no subscribers makes no
\* gateway call, has the message in the record and removes the marker.
C16_EmptyBroadcastRemovesMarker ==
    (task = "sleep" /\ message # <<>> /\ g_startSet = {}
        /\ g_outcome \in {"processed", "unlink_error"})
       => /\ g_nAttempts = 0
          /\ last_message_file = File(message)
          /\ g_outcome = "processed"

\* C16 amended: broadcast_message over an empty subscriber set makes no
\* gateway call and returns with the message in the record, and the unlink
\* of that tick removes the marker unless the unlink itself raises.
C16_EmptyBroadcast ==
    [][/\ (event'.name = "PollBroadcast" /\ subscribers = {})
          => /\ task' = "unlink"
             /\ g_nAttempts' = 0
             /\ last_message_file' = File(message)
       /\ (event'.name = "PollUnlink" /\ message # <<>> /\ g_startSet = {})
          => /\ g_nAttempts' = 0
             /\ last_message_file' = File(message)
             /\ \/ g_outcome' = "processed" /\ ~pending_message_file'.exists
                \/ g_outcome' = "unlink_error"]_vars

\* C16 witness: a message was processed with nobody subscribed
C16_Witness ==
    /\ g_outcome = "processed"
    /\ subscribers = {}
    /\ g_startSet = {}
    /\ last_message_file = File(<<"B">>)

\* C17: after a start_command whose reply failed, the identifier it
\* registered is in the in-memory set and in the subscriber file, and the
\* daemon runs on.
C17_FailedReplyKeepsRegistration ==
    (event.name = "start_command" /\ ~event.reply_ok /\ event.is_new)
       => /\ event.chat_id \in subscribers
          /\ LineCount(event.chat_id) >= 1
          /\ daemon = "running"

\* C17 witness: a new identifier was registered and its reply failed
C17_Witness ==
    /\ event.name = "start_command"
    /\ ~event.reply_ok
    /\ event.is_new
    /\ event.chat_id = 42

\* C18: the check of a tick that finds no marker ends the tick at the sleep
\* with no gateway call and with the marker, the record, the subscriber file
\* and the in-memory set as they were.
C18_IdleTickNoOp ==
    [][(event'.name = "PollCheck" /\ ~pending_message_file.exists)
         => /\ task' = "sleep"
            /\ g_outcome' = "idle"
            /\ g_nAttempts' = 0
            /\ UNCHANGED <<files, subscribers>>]_vars

\* C18 witness: an idle tick with a record and a subscriber in place
C18_Witness ==
    /\ g_outcome = "idle"
    /\ event.name = "PollCheck"
    /\ last_message_file.exists
    /\ subscribers # {}

\* C12: an invocation without TELEGRAM_BOT_TOKEN, with arguments or
\* without, exits with status 1 and leaves the subscriber file, the record,
\* the marker and everything in the running daemon as they were.
C12_MissingTokenFatal ==
    [][(main_send_notification(<<>>) \/ main_run(<<>>))
         => /\ event'.name = "main"
            /\ event'.exit_status = 1
            /\ UNCHANGED <<files, daemon, subscribers, task, locals,
                           producer>>]_vars

\* C12 witness: an invocation exited at import while the daemon was stopped
\* and all three files were in place
C12_Witness ==
    /\ event.name = "main"
    /\ event.exit_status = 1
    /\ daemon = "stopped"
    /\ subscribers_file.exists
    /\ last_message_file.exists
    /\ pending_message_file = File(<<"A">>)

\* C15: a read that finds the marker gone since the existence check ends the
\* tick at the sleep of the running daemon, with no gateway call and with the
\* Last-Message Record, the subscriber set and the subscriber file unchanged.
C15_MailboxRace ==
    [][(event'.name = "PollRead" /\ ~pending_message_file.exists)
         => /\ task' = "sleep"
            /\ daemon' = "running"
            /\ g_outcome' = "read_error"
            /\ g_nAttempts' = 0
            /\ UNCHANGED <<last_message_file, subscribers, subscribers_file,
                           pending_message_file>>]_vars

\* C15 witness: the tick after a vanished marker, record and subscriber there
C15_Witness ==
    /\ event.name = "PollRead"
    /\ g_outcome = "read_error"
    /\ task = "sleep"
    /\ ~pending_message_file.exists
    /\ last_message_file.exists
    /\ subscribers # {}

\* A tick that ended without removing the marker of the non-empty message
\* it read has the marker in place, and while the marker is untouched the
\* next tick works on the same message.
AbortedTickIsRepeated ==
    /\ (task = "sleep" /\ message # <<>>
          /\ g_outcome \in {"write_error", "RuntimeError", "unlink_error"})
          => pending_message_file.exists
    /\ g_prev # NoPrev
          => /\ pending_message_file.exists
             /\ Strip(pending_message_file.content) = g_prev.message
    /\ (g_prev # NoPrev
          /\ task \in {"write_last", "broadcast", "send", "unlink"})
          => message = g_prev.message

\* C19: the marker is removed by the loop only in the unlink step of a tick
\* in which nothing has raised and, for a non-empty message, the record holds
\* the message and the sweep went over every subscriber; a tick that aborted
\* after reading a non-empty message leaves the marker, and the next tick
\* reads the same message again.
C19_RemovalOnlyAfterCleanTick ==
    [][/\ (pending_message_file.exists /\ ~pending_message_file'.exists)
          => event'.name \in {"PollUnlink", "MarkerVanishes"}
       /\ (event'.name = "PollUnlink" /\ pending_message_file.exists
             /\ ~pending_message_file'.exists)
          => /\ task = "unlink"
             /\ g_outcome = "none"
             /\ message # <<>>
                   => /\ last_message_file = File(message)
                      /\ iter.todo = {}
                      /\ g_attempted = g_startSet
       /\ AbortedTickIsRepeated'
       /\ (event'.name = "PollRead" /\ g_prev # NoPrev /\ task' # "sleep")
          => message' = g_prev.message]_vars

\* C19 witness: a chat is being sent the message it was already sent in the
\* aborted tick before
C19_Witness ==
    /\ task = "send"
    /\ g_prev # NoPrev
    /\ chat_id \in g_prev.attempted
    /\ message = g_prev.message
    /\ message = <<"A">>

\* C20 as stated: a Last-Message Record that has been written holds a
\* non-empty, whitespace-trimmed text, the one the poll loop wrote last.
C20_RecordIsTrimmedMessage ==
    last_message_file.exists
       => /\ last_message_file.content # <<>>
          /\ last_message_file.content = Strip(last_message_file.content)
          /\ last_message_file.content = g_lastWritten

\* C20 amended: only the record write of the poll loop changes the
\* Last-Message Record, and it leaves there the non-empty, trimmed message the
\* tick read, which is the trimmed text of the message the last finished
\* enqueue wrote, or nothing when the write failed after the truncation; no
\* registration, enqueue or tick on a whitespace-only marker changes it.
C20_RecordWrittenByLoopOnly ==
    [][/\ last_message_file' # last_message_file
          => /\ event'.name = "PollWriteLast"
             /\ task = "write_last"
             /\ message # <<>>
             /\ message = Strip(message)
             /\ last_message_file' \in {File(message), File(<<>>)}
       /\ (event'.name = "PollRead" /\ message' # <<>>)
          => /\ g_queued \in Messages
             /\ message' = Strip(g_queued)
       /\ task' = "write_last" => message' # <<>>
       /\ last_message_file'.exists
          => last_message_file'.content \in {<<>>, g_lastWritten'}]_vars

\* C20 witness: the record holds the trimmed text of " B" after a tick on a
\* blank marker and a registration
C20_Witness ==
    /\ last_message_file = File(<<"B">>)
    /\ g_outcome = "empty"
    /\ event.name = "start_command"
    /\ event.is_new

====
